---- MODULE Spec2Model ----
(***************************************************************************)
(* rsvid: SPIFFE ID parsing (src/url.rs) and X.509-SVID validation          *)
(* (src/svid/x509.rs, src/svid.rs).                                         *)
(*                                                                         *)
(* A URI text is modelled by its pieces as the URL parser meets them:       *)
(* scheme, "//", userinfo, host, port, path segments, query, fragment.      *)
(* Text(raw) is the string itself; UrlParse(raw) is what url::Url::parse    *)
(* (url 2.x, WHATWG rules) makes of it; Serialize(u) is Url::to_string.     *)
(* Optional pieces are sequences of length 0 (None) or 1 (Some(v)).         *)
(***************************************************************************)
EXTENDS Integers, Sequences, FiniteSets, TLC

VARIABLES
    pc,       \* position of the caller: which operation ran last
    input,    \* the URI text handed to SpiffeID::new, by its pieces
    res,      \* what SpiffeID::new returned
    obs,      \* what the last accessor called on the SpiffeID returned
    cert,     \* the certificate (or encoded bytes) handed to the validator
    ret,      \* what the validator returned, or that it panicked
    stages,   \* the validation stages the call ran, in order
    svid      \* an X509SVID value whose accessors are called

vars == <<pc, input, res, obs, cert, ret, stages, svid>>

(***************************************************************************)
(* Bounds and alphabets                                                     *)
(***************************************************************************)
MaxSegs == 2      \* longest path, in segments
MaxSans == 2      \* most entries in a Subject Alternative Name extension

None == <<>>
Some(v) == <<v>>
IsSome(o) == Len(o) = 1
IsNone(o) == Len(o) = 0
Unwrap(o) == o[1]

Schemes == {"", "spiffe", "SPIFFE", "spiff", "http"}   \* "" : no "scheme:" prefix
Users == {"", "user"}
Passwords == {None, Some(""), Some("pass")}
Hosts == {"", "example.org", "[::1]"}
Ports == {None, Some(""), Some("8443")}
Segments == {"", "ns", "svc", "."}
Queries == {None, Some("A=b")}
Fragments == {None, Some(""), Some("aaab")}

RECURSIVE SeqsUpTo(_, _)
SeqsUpTo(S, n) ==
    IF n = 0 THEN {<<>>}
    ELSE LET shorter == SeqsUpTo(S, n - 1)
         IN  shorter \cup {Append(p, x) : p \in {q \in shorter : Len(q) = n - 1}, x \in S}

Paths == SeqsUpTo(Segments, MaxSegs)

\* A URI text.  Without "//" there is no authority; a text without scheme
\* is a bare relative reference; http texts are drawn in authority form only.
RawUris ==
    {r \in [scheme : Schemes, slashes : BOOLEAN, user : Users, pass : Passwords,
            host : Hosts, port : Ports, path : Paths, query : Queries,
            fragment : Fragments] :
        /\ ~r.slashes => (r.user = "" /\ r.pass = None /\ r.host = "" /\ r.port = None)
        /\ r.scheme = "" => (~r.slashes /\ r.query = None /\ r.fragment = None)
        /\ r.scheme = "http" => (r.slashes /\ r.host # "")}

(***************************************************************************)
(* The text of a URI                                                        *)
(***************************************************************************)
RECURSIVE Join(_, _)
Join(segs, sep) ==
    IF Len(segs) = 0 THEN ""
    ELSE IF Len(segs) = 1 THEN segs[1]
    ELSE segs[1] \o sep \o Join(Tail(segs), sep)

\* "" for no path, else "/" and the segments separated by "/".
PathStr(segs) == IF Len(segs) = 0 THEN "" ELSE "/" \o Join(segs, "/")

UserInfoText(r) ==
    IF r.user = "" /\ IsNone(r.pass) THEN ""
    ELSE r.user \o (IF IsSome(r.pass) THEN ":" \o Unwrap(r.pass) ELSE "") \o "@"

Text(r) ==
    (IF r.scheme = "" THEN "" ELSE r.scheme \o ":")
    \o (IF r.slashes
        THEN "//" \o UserInfoText(r) \o r.host
             \o (IF IsSome(r.port) THEN ":" \o Unwrap(r.port) ELSE "")
        ELSE "")
    \o PathStr(r.path)
    \o (IF IsSome(r.query) THEN "?" \o Unwrap(r.query) ELSE "")
    \o (IF IsSome(r.fragment) THEN "#" \o Unwrap(r.fragment) ELSE "")

(***************************************************************************)
(* url::Url::parse and url::Url accessors, as src/url.rs uses them          *)
(***************************************************************************)
SpecialSchemes == {"http"}

\* ASCII lower-casing, over the scheme alphabet.
ToLowercase(s) == CASE s = "SPIFFE" -> "spiffe" [] OTHER -> s

NoHost == [kind |-> "None", text |-> ""]

\* Host::parse / Host::parse_opaque: a bracketed literal is an IPv6 address,
\* anything else a domain (an opaque host for a non-special scheme).
ParseHost(h) ==
    IF h = "" THEN NoHost
    ELSE IF h = "[::1]" THEN [kind |-> "Ipv6", text |-> h]
    ELSE [kind |-> "Domain", text |-> h]

\* Path state of the parser: a single-dot segment is dropped, and leaves an
\* empty last segment when nothing follows it.
RECURSIVE ParsePath(_, _)
ParsePath(segs, acc) ==
    IF Len(segs) = 0 THEN acc
    ELSE IF Head(segs) = "."
         THEN ParsePath(Tail(segs), IF Len(segs) = 1 THEN Append(acc, "") ELSE acc)
         ELSE ParsePath(Tail(segs), Append(acc, Head(segs)))

\* Url::parse.  [ok |-> TRUE, url |-> u] or [ok |-> FALSE, err |-> cause].
UrlParse(r) ==
    LET scheme   == ToLowercase(r.scheme)
        special  == scheme \in SpecialSchemes
        \* an empty password is not kept: "user:@" has no password
        password == IF IsSome(r.pass) /\ Unwrap(r.pass) # "" THEN r.pass ELSE None
        userinfo == r.user # "" \/ IsSome(password)
        \* an empty port is not kept: "host:" has no port
        port     == IF IsSome(r.port) /\ Unwrap(r.port) # "" THEN r.port ELSE None
        segs     == ParsePath(r.path, <<>>)
        path     == IF special /\ Len(segs) = 0 THEN <<"">> ELSE segs
    IN  IF r.scheme = ""
        THEN [ok |-> FALSE, err |-> "RelativeUrlWithoutBase"]
        ELSE IF r.slashes /\ r.host = "" /\ (userinfo \/ IsSome(r.port) \/ special)
        THEN [ok |-> FALSE, err |-> "EmptyHost"]
        ELSE [ok |-> TRUE,
              url |-> [scheme    |-> scheme,
                       authority |-> r.slashes,
                       username  |-> r.user,
                       password  |-> password,
                       host      |-> ParseHost(r.host),
                       port      |-> port,
                       path      |-> path,
                       query     |-> r.query,
                       fragment  |-> r.fragment]]

has_host(u) == u.host.kind # "None"

\* Url::domain: Some only for a domain host, None for an IP literal.
domain(u) == IF u.host.kind = "Domain" THEN Some(u.host.text) ELSE None

\* Url::path_segments: None when the path does not start with "/".
path_segments(u) == IF Len(u.path) = 0 THEN None ELSE Some(u.path)

\* Url::to_string (the serialization).
Serialize(u) ==
    u.scheme \o ":"
    \o (IF u.authority
        THEN "//"
             \o (IF u.username # "" \/ IsSome(u.password)
                 THEN u.username
                      \o (IF IsSome(u.password) THEN ":" \o Unwrap(u.password) ELSE "")
                      \o "@"
                 ELSE "")
             \o u.host.text
             \o (IF IsSome(u.port) THEN ":" \o Unwrap(u.port) ELSE "")
        ELSE "")
    \o PathStr(u.path)
    \o (IF IsSome(u.query) THEN "?" \o Unwrap(u.query) ELSE "")
    \o (IF IsSome(u.fragment) THEN "#" \o Unwrap(u.fragment) ELSE "")

(***************************************************************************)
(* src/url.rs: SpiffeID                                                     *)
(***************************************************************************)
SCHEME == "spiffe"

Ok(v) == [ok |-> TRUE, val |-> v]
Err(e) == [ok |-> FALSE, err |-> e]

\* ParseError of src/url.rs
InvalidUrl(cause) == [kind |-> "InvalidUrl", what |-> cause]
InvalidSPIFFEID(msg) == [kind |-> "InvalidSPIFFEID", what |-> msg]

\* The messages of the ensure_id! lines, in source order (the back quotes
\* around a value are written as single quotes).
SchemeMsg(found) == "Expected Scheme " \o SCHEME \o ", found: '" \o found \o "'"
HostMsg(u) == "Host is empty: '" \o Serialize(u) \o "'"
FragmentMsg(v) == "Fragment is not allowed, found: '" \o v \o "'"
QueryMsg(v) == "Query is not allowed, found: '" \o v \o "'"
PortMsg(v) == "Port is not allowed, found: '" \o v \o "'"
PasswordMsg(v) == "Password is not allowed, found: '" \o v \o "'"
UsernameMsg(v) == "Username is not allowed, found: '" \o v \o "'"

\* SpiffeID::new without the port check.
New_NoPortCheck(r) ==
    LET p == UrlParse(r)
        u == p.url
    IN  IF ~p.ok THEN Err(InvalidUrl(p.err))
        ELSE IF ToLowercase(u.scheme) # SCHEME THEN Err(InvalidSPIFFEID(SchemeMsg(u.scheme)))
        ELSE IF ~has_host(u) THEN Err(InvalidSPIFFEID(HostMsg(u)))
        ELSE IF ~IsNone(u.fragment) THEN Err(InvalidSPIFFEID(FragmentMsg(Unwrap(u.fragment))))
        ELSE IF ~IsNone(u.query) THEN Err(InvalidSPIFFEID(QueryMsg(Unwrap(u.query))))
        ELSE IF ~IsNone(u.password) THEN Err(InvalidSPIFFEID(PasswordMsg(Unwrap(u.password))))
        ELSE IF ~(u.username = "") THEN Err(InvalidSPIFFEID(UsernameMsg(u.username)))
        ELSE Ok([url |-> u])

\* SpiffeID::new with the query checked before the fragment.
New_QueryBeforeFragment(r) ==
    LET p == UrlParse(r)
        u == p.url
    IN  IF ~p.ok THEN Err(InvalidUrl(p.err))
        ELSE IF ToLowercase(u.scheme) # SCHEME THEN Err(InvalidSPIFFEID(SchemeMsg(u.scheme)))
        ELSE IF ~has_host(u) THEN Err(InvalidSPIFFEID(HostMsg(u)))
        ELSE IF ~IsNone(u.query) THEN Err(InvalidSPIFFEID(QueryMsg(Unwrap(u.query))))
        ELSE IF ~IsNone(u.fragment) THEN Err(InvalidSPIFFEID(FragmentMsg(Unwrap(u.fragment))))
        ELSE IF ~IsNone(u.port) THEN Err(InvalidSPIFFEID(PortMsg(Unwrap(u.port))))
        ELSE IF ~IsNone(u.password) THEN Err(InvalidSPIFFEID(PasswordMsg(Unwrap(u.password))))
        ELSE IF ~(u.username = "") THEN Err(InvalidSPIFFEID(UsernameMsg(u.username)))
        ELSE Ok([url |-> u])

\* SpiffeID::new
New(r) ==
    LET p == UrlParse(r)
        u == p.url
    IN  IF ~p.ok THEN Err(InvalidUrl(p.err))
        ELSE IF ToLowercase(u.scheme) # SCHEME THEN Err(InvalidSPIFFEID(SchemeMsg(u.scheme)))
        ELSE IF ~has_host(u) THEN Err(InvalidSPIFFEID(HostMsg(u)))
        ELSE IF ~IsNone(u.fragment) THEN Err(InvalidSPIFFEID(FragmentMsg(Unwrap(u.fragment))))
        ELSE IF ~IsNone(u.query) THEN Err(InvalidSPIFFEID(QueryMsg(Unwrap(u.query))))
        ELSE IF ~IsNone(u.port) THEN Err(InvalidSPIFFEID(PortMsg(Unwrap(u.port))))
        ELSE IF ~IsNone(u.password) THEN Err(InvalidSPIFFEID(PasswordMsg(Unwrap(u.password))))
        ELSE IF ~(u.username = "") THEN Err(InvalidSPIFFEID(UsernameMsg(u.username)))
        ELSE Ok([url |-> u])

\* is_workload that only asks whether there are path segments.
is_workload_AnySegment(id) == IsSome(path_segments(id.url))

\* SpiffeID::is_workload
is_workload(id) ==
    LET segs  == path_segments(id.url)
        first == IF IsSome(segs) /\ Len(Unwrap(segs)) > 0 THEN Some(Unwrap(segs)[1]) ELSE None
    IN  IF IsSome(first) THEN Unwrap(first) # "" ELSE TRUE

\* SpiffeID::trust_domain: the domain, or a panic of expect().
Value(v) == [panic |-> FALSE, val |-> v]
Panic(msg) == [panic |-> TRUE, val |-> msg]

trust_domain(id) ==
    LET d == domain(id.url)
    IN  IF IsSome(d) THEN Value(Unwrap(d)) ELSE Panic("Bug on Host validation")

\* SpiffeID::workload_id
workload_id(id) ==
    LET segs == path_segments(id.url)
    IN  IF IsSome(segs) /\ is_workload(id) THEN Some(Join(Unwrap(segs), "/")) ELSE None

\* to_string rebuilt from the trust domain and the joined segments.
to_string_FromParts(id) ==
    SCHEME \o "://" \o id.url.host.text \o "/" \o Join(id.url.path, "/")

\* impl ToString for SpiffeID
to_string(id) == Serialize(id.url)

(***************************************************************************)
(* The SPIFFE ID machine: a caller parses one text with SpiffeID::new and   *)
(* then calls the accessors of the value it got, in any order.              *)
(***************************************************************************)
NoObs == [trust_domain |-> None, workload_id |-> None, is_workload |-> None,
          to_string |-> None]

IdInit ==
    /\ pc = "start"
    /\ input \in RawUris
    /\ res = None
    /\ obs = NoObs
    /\ cert = None
    /\ ret = None
    /\ stages = <<>>
    /\ svid = None

Parsed == IsSome(res) /\ Unwrap(res).ok
TheId == Unwrap(res).val

CallNew ==
    /\ pc = "start"
    /\ res' = Some(New(input))
    /\ pc' = "new"
    /\ UNCHANGED <<input, obs, cert, ret, stages, svid>>

CallTrustDomain ==
    /\ Parsed
    /\ obs' = [obs EXCEPT !.trust_domain = Some(trust_domain(TheId))]
    /\ pc' = "trust_domain"
    /\ UNCHANGED <<input, res, cert, ret, stages, svid>>

CallWorkloadId ==
    /\ Parsed
    /\ obs' = [obs EXCEPT !.workload_id = Some(workload_id(TheId))]
    /\ pc' = "workload_id"
    /\ UNCHANGED <<input, res, cert, ret, stages, svid>>

CallIsWorkload ==
    /\ Parsed
    /\ obs' = [obs EXCEPT !.is_workload = Some(is_workload(TheId))]
    /\ pc' = "is_workload"
    /\ UNCHANGED <<input, res, cert, ret, stages, svid>>

CallToString ==
    /\ Parsed
    /\ obs' = [obs EXCEPT !.to_string = Some(to_string(TheId))]
    /\ pc' = "to_string"
    /\ UNCHANGED <<input, res, cert, ret, stages, svid>>

IdNext ==
    \/ CallNew
    \/ CallTrustDomain
    \/ CallWorkloadId
    \/ CallIsWorkload
    \/ CallToString

Spec == IdInit /\ [][IdNext]_vars

(***************************************************************************)
(* Claims about the SPIFFE ID model                                         *)
(***************************************************************************)
TheUrl == TheId.url

\* The component constraints of a SPIFFE ID, on a parsed URL.
IdConstraints(u) ==
    /\ u.scheme = "spiffe"
    /\ u.host.kind # "None" /\ u.host.text # ""
    /\ u.port = None
    /\ u.query = None
    /\ u.fragment = None
    /\ u.username = ""
    /\ u.password = None

\* The same constraints read off the text: a port, a password or a user
\* name is one that has a value.
TextConstraints(r) ==
    /\ r.scheme \in {"spiffe", "SPIFFE"}
    /\ r.slashes /\ r.host # ""
    /\ r.port \in {None, Some("")}
    /\ r.query = None
    /\ r.fragment = None
    /\ r.user = ""
    /\ r.pass \in {None, Some("")}

\* C1: every SpiffeID that SpiffeID::new returns satisfies all component
\* constraints at once (scheme spiffe, a non-empty host, no port, query,
\* fragment, user name or password), and a text that breaks one of them is
\* never accepted.
C1_AcceptedIdMeetsAllConstraints ==
    IsSome(res) =>
        /\ Unwrap(res).ok => IdConstraints(TheUrl) /\ TextConstraints(input)
        /\ ~TextConstraints(input) => ~Unwrap(res).ok

C1_Witness ==
    /\ pc = "new" /\ Parsed
    /\ Text(input) = "spiffe://example.org/ns/svc"

\* The checks of SpiffeID::new as the specification numbers them.
CheckFails(i, u) ==
    CASE i = 1 -> u.scheme # "spiffe"
      [] i = 2 -> u.host.kind = "None"
      [] i = 3 -> IsSome(u.fragment)
      [] i = 4 -> IsSome(u.query)
      [] i = 5 -> IsSome(u.port)
      [] i = 6 -> IsSome(u.password)
      [] i = 7 -> u.username # ""

CheckError(i, u) ==
    CASE i = 1 -> SchemeMsg(u.scheme)
      [] i = 2 -> HostMsg(u)
      [] i = 3 -> FragmentMsg(Unwrap(u.fragment))
      [] i = 4 -> QueryMsg(Unwrap(u.query))
      [] i = 5 -> PortMsg(Unwrap(u.port))
      [] i = 6 -> PasswordMsg(Unwrap(u.password))
      [] i = 7 -> UsernameMsg(u.username)

Failing(u) == {i \in 1..7 : CheckFails(i, u)}
FirstFailing(u) == CHOOSE i \in Failing(u) : \A j \in Failing(u) : i <= j

\* C2: for a text the URL parser accepts, SpiffeID::new reports the error of
\* the first failing check in the order scheme, host, fragment, query, port,
\* password, user name, carrying the offending value, also when several
\* checks fail; it succeeds only when none fails.
C2_FirstFailingCheckIsReported ==
    (IsSome(res) /\ UrlParse(input).ok) =>
        LET u == UrlParse(input).url
        IN  IF Failing(u) = {}
            THEN Unwrap(res).ok
            ELSE Unwrap(res) = Err(InvalidSPIFFEID(CheckError(FirstFailing(u), u)))

C2_Witness ==
    /\ IsSome(res) /\ UrlParse(input).ok
    /\ Failing(UrlParse(input).url) = {3, 4, 5, 6, 7}
    /\ Unwrap(res) = Err(InvalidSPIFFEID("Fragment is not allowed, found: 'aaab'"))

\* No empty path segment in the text ("//" in the path, or a trailing "/").
NoRedundantSeparators(r) == \A i \in 1..Len(r.path) : r.path[i] # ""

\* A syntactically valid SPIFFE ID, as it is written: the scheme spiffe in
\* any case, a trust domain, no user information, no port, no query, no
\* fragment and no dot segment.
ValidSpiffeText(r) ==
    /\ r.scheme \in {"spiffe", "SPIFFE"}
    /\ r.slashes /\ r.host # ""
    /\ r.user = "" /\ r.pass = None
    /\ r.port = None
    /\ r.query = None
    /\ r.fragment = None
    /\ \A i \in 1..Len(r.path) : r.path[i] # "."

\* C3 as stated: for every syntactically valid SPIFFE ID text s with no
\* redundant path separators that SpiffeID::new accepts, to_string of the
\* parsed SpiffeID equals s exactly.
C3_RoundTripAsStated ==
    (Parsed /\ IsSome(obs.to_string)
        /\ ValidSpiffeText(input) /\ NoRedundantSeparators(input)) =>
        Unwrap(obs.to_string) = Text(input)

\* C3 amended: for every syntactically valid SPIFFE ID text s with no
\* redundant path separators whose scheme is written in lower case,
\* to_string of the parsed SpiffeID equals s exactly.
C3_RoundTripOfLowerCaseScheme ==
    (Parsed /\ IsSome(obs.to_string)
        /\ ValidSpiffeText(input) /\ NoRedundantSeparators(input)
        /\ input.scheme = "spiffe") =>
        Unwrap(obs.to_string) = Text(input)

C3_Witness ==
    /\ Parsed /\ IsSome(obs.to_string)
    /\ ValidSpiffeText(input) /\ NoRedundantSeparators(input)
    /\ input.scheme = "spiffe"
    /\ Len(input.path) = 2
    /\ Unwrap(obs.to_string) = "spiffe://example.org/ns/svc"

\* C4: workload_id() is Some (the segments joined with "/") exactly when the
\* first path segment is non-empty, and is_root (the negation of
\* is_workload) is the exact negation of workload_id().is_some(), for every
\* accepted text, also one with no path at all.
C4_RootIsNegationOfWorkloadId ==
    (Parsed /\ IsSome(obs.workload_id) /\ IsSome(obs.is_workload)) =>
        LET wid     == Unwrap(obs.workload_id)
            is_root == ~Unwrap(obs.is_workload)
            first   == Len(TheUrl.path) > 0 /\ TheUrl.path[1] # ""
        IN  /\ IsSome(wid) <=> first
            /\ IsSome(wid) => Unwrap(wid) = Join(TheUrl.path, "/")
            /\ is_root <=> ~IsSome(wid)

\* C9: for every SpiffeID that SpiffeID::new returned, trust_domain()
\* returns the host of the URI and does not panic, for a domain name and for
\* an IP literal alike.
C9_TrustDomainNeverPanics ==
    (Parsed /\ IsSome(obs.trust_domain)) =>
        /\ ~Unwrap(obs.trust_domain).panic
        /\ Unwrap(obs.trust_domain).val = input.host

(***************************************************************************)
(* src/svid/x509.rs (X509SVID) and src/svid.rs (SVID): the validators       *)
(***************************************************************************)
\* A decoded certificate, as far as the validators and the specification
\* read it: the Subject Alternative Name extension (None when absent), the
\* CA flag of Basic Constraints and the Key Usage bits.
KeyUsageBits == {"digitalSignature", "keyEncipherment", "keyCertSign", "cRLSign"}

UriSvc  == [scheme |-> "spiffe", slashes |-> TRUE, user |-> "", pass |-> None,
            host |-> "example.org", port |-> None, path |-> <<"ns", "svc">>,
            query |-> None, fragment |-> None]
UriRoot == [UriSvc EXCEPT !.path = <<>>]
UriPort == [UriSvc EXCEPT !.port = Some("8443")]
UriHttp == [UriSvc EXCEPT !.scheme = "http", !.host = "www.example.com", !.path = <<>>]

SanUris == {UriSvc, UriRoot, UriPort, UriHttp}

\* GeneralName: uri() is Some for a URI entry only.
SanEntries ==
    {[dns |-> Some("example.com"), uri |-> None]}
    \cup {[dns |-> None, uri |-> Some(u)] : u \in SanUris}

Certs ==
    [san : {None} \cup {Some(names) : names \in SeqsUpTo(SanEntries, MaxSans)},
     isCA : BOOLEAN,
     keyUsage : SUBSET KeyUsageBits]

\* sans.iter().filter_map(|v| v.uri()): the URI texts, in order.
RECURSIVE uri_sans(_)
uri_sans(names) ==
    IF Len(names) = 0 THEN <<>>
    ELSE IF IsSome(Head(names).uri)
         THEN <<Unwrap(Head(names).uri)>> \o uri_sans(Tail(names))
         ELSE uri_sans(Tail(names))

\* format!("{:?}", remained) of a Vec<&str>
RECURSIVE DebugItems(_)
DebugItems(uris) ==
    IF Len(uris) = 0 THEN ""
    ELSE "\"" \o Text(Head(uris)) \o "\""
         \o (IF Len(uris) > 1 THEN ", " ELSE "") \o DebugItems(Tail(uris))

DebugList(uris) == "[" \o DebugItems(uris) \o "]"

\* ParseError of src/svid/x509.rs and of src/svid.rs
InvalidSVID(msg) == [kind |-> "InvalidSVID", what |-> msg]
X509InvalidSPIFFEID(e) == [kind |-> "InvalidSPIFFEID", what |-> e]
InvalidX509(stack) == [kind |-> "InvalidX509", what |-> stack]

NoSanMsg == "Doesn't has SAN"
NoUriSanMsg == "Doesn't has URI SAN"
MoreThanOneMsg(remained) == "More than one SAN URI Type found: " \o DebugList(remained)

\* Display of url::ParseError and of the ParseError of src/url.rs
UrlErrorDisplay(cause) ==
    CASE cause = "RelativeUrlWithoutBase" -> "relative URL without a base"
      [] cause = "EmptyHost" -> "empty host"

IdErrorDisplay(e) ==
    IF e.kind = "InvalidUrl"
    THEN "Invalid SPIFFE ID URL: " \o UrlErrorDisplay(e.what)
    ELSE "Invalid SPIFFE ID: " \o e.what

\* validate_spiffe_id of src/svid/x509.rs
x509_validate_spiffe_id(c) ==
    IF IsNone(c.san) THEN Err(InvalidSVID(NoSanMsg))
    ELSE LET uris == uri_sans(Unwrap(c.san))
         IN  IF Len(uris) = 0 THEN Err(InvalidSVID(NoUriSanMsg))
             ELSE LET id       == New(Head(uris))
                      remained == Tail(uris)
                  IN  IF ~id.ok THEN Err(X509InvalidSPIFFEID(id.err))
                      ELSE IF Len(remained) # 0 THEN Err(InvalidSVID(MoreThanOneMsg(remained)))
                      ELSE Ok(id.val)

\* validate_spiffe_id of src/svid.rs: the parse error is turned into text.
svid_validate_spiffe_id(c) ==
    IF IsNone(c.san) THEN Err(InvalidSVID(NoSanMsg))
    ELSE LET uris == uri_sans(Unwrap(c.san))
         IN  IF Len(uris) = 0 THEN Err(InvalidSVID(NoUriSanMsg))
             ELSE LET id      == New(Head(uris))
                      remaind == Tail(uris)
                  IN  IF ~id.ok THEN Err(InvalidSVID(IdErrorDisplay(id.err)))
                      ELSE IF Len(remaind) # 0 THEN Err(InvalidSVID(MoreThanOneMsg(remaind)))
                      ELSE Ok(id.val)

validate_spiffe_id(m, c) ==
    IF m = "x509" THEN x509_validate_spiffe_id(c) ELSE svid_validate_spiffe_id(c)

\* The stages validate_spiffe_id runs: the SAN entries are read, the first
\* URI is parsed, and only then the remaining URIs are counted.
validate_stages(c) ==
    IF IsNone(c.san) \/ Len(uri_sans(Unwrap(c.san))) = 0 THEN <<"SanExtraction">>
    ELSE IF ~New(Head(uri_sans(Unwrap(c.san)))).ok THEN <<"SanExtraction", "IdValidation">>
    ELSE <<"SanExtraction", "IdValidation", "SanExtraction">>

\* X509SVID::from_certificate (x509.rs): the SPIFFE ID is validated, then
\* unimplemented!() panics.  SVID::from_certificate (svid.rs): unimplemented!().
Unimplemented == Panic("not implemented")

from_certificate(m, c) ==
    IF m = "x509"
    THEN LET spiffe_id == x509_validate_spiffe_id(c)
         IN  IF ~spiffe_id.ok THEN Value(spiffe_id) ELSE Unimplemented
    ELSE Unimplemented

from_certificate_stages(m, c) == IF m = "x509" THEN validate_stages(c) ELSE <<>>

\* Encoded bytes: a format and, when they encode a certificate, the
\* certificate.  X509::from_der / X509::from_pem fail on anything else.
Encodings == {"DER", "PEM"}
Bytes == [format : Encodings, content : {None} \cup {Some(c) : c \in Certs}]

Decode(encoding, b) ==
    IF b.format = encoding /\ IsSome(b.content)
    THEN Ok(Unwrap(b.content))
    ELSE Err(InvalidX509("ErrorStack"))

\* from_der and from_pem of both modules
from_encoded(m, encoding, b) ==
    LET certificate == Decode(encoding, b)
    IN  IF ~certificate.ok THEN Value(certificate)
        ELSE from_certificate(m, certificate.val)

from_encoded_stages(m, encoding, b) ==
    LET certificate == Decode(encoding, b)
    IN  IF ~certificate.ok THEN <<"Decoding">>
        ELSE <<"Decoding">> \o from_certificate_stages(m, certificate.val)

(***************************************************************************)
(* The validator machine: one validation call on one input.                 *)
(***************************************************************************)
Modules == {"x509", "svid"}

SvidInit ==
    /\ pc = "start"
    /\ input = UriSvc
    /\ res = None
    /\ obs = NoObs
    /\ cert = None
    /\ ret = None
    /\ stages = <<>>
    /\ svid = None

CallFromDer ==
    /\ pc = "start"
    /\ \E m \in Modules, b \in Bytes :
        /\ cert' = Some(b)
        /\ ret' = Some(from_encoded(m, "DER", b))
        /\ stages' = from_encoded_stages(m, "DER", b)
        /\ pc' = m \o "::from_der"
    /\ UNCHANGED <<input, res, obs, svid>>

CallFromPem ==
    /\ pc = "start"
    /\ \E m \in Modules, b \in Bytes :
        /\ cert' = Some(b)
        /\ ret' = Some(from_encoded(m, "PEM", b))
        /\ stages' = from_encoded_stages(m, "PEM", b)
        /\ pc' = m \o "::from_pem"
    /\ UNCHANGED <<input, res, obs, svid>>

CallFromCertificate ==
    /\ pc = "start"
    /\ \E m \in Modules, c \in Certs :
        /\ cert' = Some([format |-> "X509", content |-> Some(c)])
        /\ ret' = Some(from_certificate(m, c))
        /\ stages' = from_certificate_stages(m, c)
        /\ pc' = m \o "::from_certificate"
    /\ UNCHANGED <<input, res, obs, svid>>

\* validate_spiffe_id called on its own, as test_validate_spiffe_id does.
CallValidateSpiffeId ==
    /\ pc = "start"
    /\ \E m \in Modules, c \in Certs :
        /\ cert' = Some([format |-> "X509", content |-> Some(c)])
        /\ ret' = Some(Value(validate_spiffe_id(m, c)))
        /\ stages' = validate_stages(c)
        /\ pc' = m \o "::validate_spiffe_id"
    /\ UNCHANGED <<input, res, obs, svid>>

SvidNext ==
    \/ CallFromDer
    \/ CallFromPem
    \/ CallFromCertificate
    \/ CallValidateSpiffeId

SpecSvid == SvidInit /\ [][SvidNext]_vars

(***************************************************************************)
(* Claims about the validators                                              *)
(***************************************************************************)
Returned == Unwrap(ret)
TheCert == Unwrap(Unwrap(cert).content)
CertUris == IF IsSome(TheCert.san) THEN uri_sans(Unwrap(TheCert.san)) ELSE <<>>

ValidateCalls == {"x509::from_certificate", "x509::validate_spiffe_id", "svid::validate_spiffe_id"}

\* MissingSpiffeId and AmbiguousSpiffeId(uris), as the code words them.
IsMissingSpiffeId(e) == e \in {InvalidSVID(NoSanMsg), InvalidSVID(NoUriSanMsg)}
IsAmbiguousSpiffeId(e, uris) == e = InvalidSVID(MoreThanOneMsg(Tail(uris)))

\* C5: a certificate with no URI SAN entry is rejected with MissingSpiffeId,
\* and one with two or more URI entries with AmbiguousSpiffeId listing the
\* URIs, whatever the URIs contain.
C5_UriCountDecidesTheError ==
    (pc \in ValidateCalls) =>
        /\ Len(CertUris) = 0 =>
            (~Returned.panic /\ ~Returned.val.ok /\ IsMissingSpiffeId(Returned.val.err))
        /\ Len(CertUris) >= 2 =>
            (~Returned.panic /\ ~Returned.val.ok
                /\ IsAmbiguousSpiffeId(Returned.val.err, CertUris))

EndEntityBits == {"digitalSignature", "keyEncipherment"}
SigningBits == {"keyCertSign", "cRLSign"}

OneValidUri == Len(CertUris) = 1 /\ New(CertUris[1]).ok

\* C6: for a certificate with exactly one URI SAN entry that is a valid
\* SPIFFE ID, from_certificate returns Ok with that SPIFFE ID, of type
\* Signing when isCA and no end-entity bit is set, of type Leaf when not isCA
\* and digitalSignature or keyEncipherment is set.
C6_ValidCertificateYieldsSvid ==
    (pc = "x509::from_certificate" /\ OneValidUri) =>
        LET c == TheCert
            IsSvid(t) ==
                /\ ~Returned.panic
                /\ Returned.val.ok
                /\ Returned.val.val = [cert_type |-> t, inner |-> c,
                                       spiffe_id |-> New(CertUris[1]).val]
        IN  /\ (c.isCA /\ c.keyUsage \cap EndEntityBits = {}) => IsSvid("Signing")
            /\ (~c.isCA /\ c.keyUsage \cap EndEntityBits # {}) => IsSvid("Leaf")

\* Basic Constraints and Key Usage contradict each other.
Contradictory(c) ==
    \/ ~c.isCA /\ c.keyUsage # {} /\ c.keyUsage \subseteq SigningBits
    \/ c.isCA /\ c.keyUsage # {} /\ c.keyUsage \subseteq EndEntityBits

\* C7: a certificate whose Basic Constraints and Key Usage contradict each
\* other is rejected with an error (AmbiguousCertificateType) and is not
\* returned as an X509SVID of either type.
C7_ContradictoryCertificateIsRejected ==
    (pc = "x509::from_certificate" /\ OneValidUri /\ Contradictory(TheCert)) =>
        (~Returned.panic /\ ~Returned.val.ok)

StageOrder == <<"Decoding", "SanExtraction", "IdValidation", "TypeClassification">>

IsPrefix(a, b) == Len(a) <= Len(b) /\ \A i \in 1..Len(a) : a[i] = b[i]

EntryCalls == {"x509::from_der", "x509::from_pem", "x509::from_certificate"}

\* C8: every call of from_der, from_pem or from_certificate runs the stages
\* in the order Decoding, SanExtraction, IdValidation, TypeClassification and
\* ends either Validated, all stages run, or with the error of the stage that
\* failed and no later stage run; no call ends in a panic.
C8_CallEndsValidatedOrRejected ==
    (pc \in EntryCalls) =>
        LET order == IF Unwrap(cert).format = "X509" THEN Tail(StageOrder) ELSE StageOrder
        IN  /\ ~Returned.panic
            /\ IsPrefix(stages, order)
            /\ Returned.val.ok <=> stages = order

\* C10: a certificate with exactly one URI SAN entry that is not a valid
\* SPIFFE ID is rejected with InvalidSpiffeId wrapping the unchanged error
\* SpiffeID::new returned for that URI.
C10_ParseErrorIsWrappedUnchanged ==
    (pc \in ValidateCalls /\ Len(CertUris) = 1 /\ ~New(CertUris[1]).ok) =>
        /\ ~Returned.panic
        /\ ~Returned.val.ok
        /\ Returned.val.err = X509InvalidSPIFFEID(New(CertUris[1]).err)

(***************************************************************************)
(* Claims about the path of a SPIFFE ID                                     *)
(***************************************************************************)
\* C11 as stated: every SpiffeID that SpiffeID::new accepts has a path that
\* is empty or a sequence of non-empty segments; a text whose path has an
\* empty segment never yields a SpiffeID holding an empty segment.
C11_NoEmptyPathSegment ==
    (Parsed /\ \E i \in 1..Len(input.path) : input.path[i] = "") =>
        \A i \in 1..Len(TheUrl.path) : TheUrl.path[i] # ""

\* C11 amended: SpiffeID::new keeps the path as the URL parser left it,
\* empty segments included; a SpiffeID whose path starts with an empty
\* segment is a root identity (workload_id() is None), so a workload id that
\* is returned starts with a non-empty segment.
C11_EmptyFirstSegmentIsRoot ==
    (Parsed /\ IsSome(obs.workload_id)) =>
        LET wid == Unwrap(obs.workload_id)
        IN  /\ TheUrl.path = ParsePath(input.path, <<>>)
            /\ (Len(TheUrl.path) > 0 /\ TheUrl.path[1] = "") => wid = None
            /\ IsSome(wid) => (TheUrl.path[1] # "" /\ Unwrap(wid) = Join(TheUrl.path, "/"))

C11_Witness ==
    /\ Parsed /\ IsSome(obs.workload_id)
    /\ input.path = <<"", "ns">>
    /\ TheUrl.path = <<"", "ns">>
    /\ Unwrap(obs.workload_id) = None

(***************************************************************************)
(* src/svid/x509.rs: X509SVID and its type accessors                        *)
(***************************************************************************)
\* enum CertificateType
CertificateType == {"Leaf", "Signing"}

\* struct X509SVID.  No factory returns one (from_certificate panics), so the
\* values are those of the type that keep its invariant: the certificate
\* holds exactly one URI SAN entry and spiffe_id is that URI parsed.
X509SVIDs ==
    {[cert_type |-> t, inner |-> c, spiffe_id |-> New(uri_sans(Unwrap(c.san))[1]).val] :
        t \in CertificateType,
        c \in {x \in Certs : /\ IsSome(x.san)
                             /\ Len(uri_sans(Unwrap(x.san))) = 1
                             /\ New(uri_sans(Unwrap(x.san))[1]).ok}}

\* is_signing whose second arm answers true.
is_signing_CatchAllTrue(s) == TRUE

\* X509SVID::is_leaf
is_leaf(s) == CASE s.cert_type = "Leaf" -> TRUE [] OTHER -> FALSE

\* X509SVID::is_signing
is_signing(s) == CASE s.cert_type = "Signing" -> TRUE [] OTHER -> FALSE

\* X509SVID::spiffe_id
spiffe_id(s) == s.spiffe_id

NoTypeObs == [is_leaf |-> None, is_signing |-> None]

TypeInit ==
    /\ pc = "start"
    /\ input = UriSvc
    /\ res = None
    /\ obs = NoTypeObs
    /\ cert = None
    /\ ret = None
    /\ stages = <<>>
    /\ svid \in {Some(s) : s \in X509SVIDs}

CallIsLeaf ==
    /\ IsSome(svid)
    /\ obs' = [obs EXCEPT !.is_leaf = Some(is_leaf(Unwrap(svid)))]
    /\ pc' = "is_leaf"
    /\ UNCHANGED <<input, res, cert, ret, stages, svid>>

CallIsSigning ==
    /\ IsSome(svid)
    /\ obs' = [obs EXCEPT !.is_signing = Some(is_signing(Unwrap(svid)))]
    /\ pc' = "is_signing"
    /\ UNCHANGED <<input, res, cert, ret, stages, svid>>

TypeNext ==
    \/ CallIsLeaf
    \/ CallIsSigning

SpecType == TypeInit /\ [][TypeNext]_vars

\* C12: for every X509SVID exactly one of is_leaf() and is_signing() is
\* true: never both, never neither, so no third certificate type shows.
C12_ExactlyOneOfLeafAndSigning ==
    (IsSome(svid) /\ IsSome(obs.is_leaf) /\ IsSome(obs.is_signing)) =>
        /\ ~(Unwrap(obs.is_leaf) /\ Unwrap(obs.is_signing))
        /\ Unwrap(obs.is_leaf) \/ Unwrap(obs.is_signing)
        /\ Unwrap(obs.is_leaf) <=> Unwrap(svid).cert_type = "Leaf"
        /\ Unwrap(obs.is_signing) <=> Unwrap(svid).cert_type = "Signing"

C12_Witness ==
    /\ IsSome(svid) /\ Unwrap(svid).cert_type = "Signing"
    /\ obs.is_leaf = Some(FALSE)
    /\ obs.is_signing = Some(TRUE)

====
